---- MODULE Spec2Model ----
(***************************************************************************)
(* The browser client of the Texas Hold'em teaching game                   *)
(* (static/js/game.js, class PokerGame) together with the requests it has  *)
(* in flight and the game server it talks to.                              *)
(*                                                                         *)
(* The client is modelled handler by handler.  The page is the record ui:  *)
(* the fields of the PokerGame object, the classes of the two screens and  *)
(* three modals, and the content of every DOM element the code writes.     *)
(* Rendered text is kept structured: T(t, n) is a label t and a number n.  *)
(* The Chinese labels of the source are written as ASCII glosses.          *)
(*                                                                         *)
(* The handlers of the settings buttons and of the Tab key change only the *)
(* settings sent with a new game and the visibility of the analysis panel; *)
(* they are left out.                                                      *)
(*                                                                         *)
(* The server (app.py) is not among the sources; it is modelled from the   *)
(* interface section of the specification as an environment that answers   *)
(* each request with one of a fixed set of state documents or an error.    *)
(***************************************************************************)
EXTENDS Integers, Sequences, FiniteSets, Bags, TLC

\* ------------------------------------------------------------------ bounds
\* Requests the client sends in one run.
MaxRequests == 4
\* Steps of the raise slider above its minimum that the user may choose.
MaxSlide == 1

\* ------------------------------------------------------------- JS values
\* null / undefined / a missing field is the empty tuple, a present value x
\* is <<x>>.
None == <<>>
Some(x) == <<x>>
Truthy(o) == Len(o) > 0

T(t, n) == [t |-> t, n |-> n]
NoText == T("", 0)

Card(r, s) == [rank |-> r, suit |-> s]

\* --------------------------------------------------- the state documents
\* Section 6 of the specification: the fields of a player entry.
Player(name, chips, cards, bet, is_human, is_dealer, is_current, is_active, last_action) ==
    [name |-> name, chips |-> chips, cards |-> cards, bet |-> bet,
     current_bet |-> bet, is_human |-> is_human, is_dealer |-> is_dealer,
     is_current |-> is_current, is_active |-> is_active,
     is_all_in |-> (chips = 0 /\ is_active), last_action |-> last_action]

Act(a, n) == [action |-> a, amount |-> n]

HoleH == <<Card("A", "S"), Card("K", "H")>>
Hole1 == <<Card("9", "D"), Card("9", "C")>>
Hole2 == <<Card("7", "H"), Card("2", "S")>>
Flop == <<Card("Q", "H"), Card("J", "S"), Card("4", "D")>>

\* Hand 1 dealt: the human faces a bet; no analysis or advice yet.
DocDealt ==
    [hand_number |-> 1, stage |-> "PRE_FLOP", pot |-> Some(30),
     community_cards |-> <<>>,
     players |-> <<Player("You", 980, Some(HoleH), 0, TRUE, FALSE, TRUE, TRUE, ""),
                   Player("AI1", 990, None, 10, FALSE, TRUE, FALSE, TRUE, ""),
                   Player("AI2", 980, None, 20, FALSE, FALSE, FALSE, TRUE, "")>>,
     current_hand |-> "",
     available_actions |-> <<Act("fold", 0), Act("call", 20), Act("raise", 40), Act("all_in", 980)>>,
     analysis |-> None, advice |-> None,
     messages |-> <<"blinds posted">>,
     hand_result |-> None, is_game_over |-> FALSE]

\* A later hand dealt: analysis with one out, advice with teaching points.
DocDealt2 ==
    [hand_number |-> 2, stage |-> "PRE_FLOP", pot |-> Some(30),
     community_cards |-> <<>>,
     players |-> <<Player("You", 600, Some(HoleH), 0, TRUE, TRUE, TRUE, TRUE, ""),
                   Player("AI1", 1390, None, 10, FALSE, FALSE, FALSE, TRUE, ""),
                   Player("AI2", 0, None, 20, FALSE, FALSE, FALSE, TRUE, "all_in")>>,
     current_hand |-> "",
     available_actions |-> <<Act("fold", 0), Act("call", 20), Act("raise", 60), Act("all_in", 600)>>,
     analysis |-> Some([win_rate |-> 655, pot_odds |-> 400, ev |-> 12,
                        outs |-> Some(<<[name |-> "Set", count |-> 2, probability |-> 8]>>)]),
     advice |-> Some([action |-> "call", reasoning |-> "odds are fine",
                      teaching_points |-> Some(<<"pot odds favor continuing">>)]),
     messages |-> <<"blinds posted">>,
     hand_result |-> None, is_game_over |-> FALSE]

\* Flop, nobody has bet: check or bet; a draw with outs; one opponent folded.
DocFlop ==
    [hand_number |-> 1, stage |-> "FLOP", pot |-> Some(60),
     community_cards |-> Flop,
     players |-> <<Player("You", 960, Some(HoleH), 0, TRUE, FALSE, TRUE, TRUE, "call"),
                   Player("AI1", 980, None, 0, FALSE, TRUE, FALSE, TRUE, "check"),
                   Player("AI2", 980, None, 0, FALSE, FALSE, FALSE, FALSE, "fold")>>,
     current_hand |-> "High Card",
     available_actions |-> <<Act("fold", 0), Act("check", 0), Act("bet", 20), Act("all_in", 960)>>,
     analysis |-> Some([win_rate |-> 412, pot_odds |-> 0, ev |-> 25,
                        outs |-> Some(<<[name |-> "Straight", count |-> 4, probability |-> 17],
                                        [name |-> "Pair", count |-> 6, probability |-> 24]>>)]),
     advice |-> Some([action |-> "check_call", reasoning |-> "drawing hand",
                      teaching_points |-> Some(<<"drawing to the nuts", "position matters">>)]),
     messages |-> <<"blinds posted", "flop dealt">>,
     hand_result |-> None, is_game_over |-> FALSE]

\* Turn, an opponent has raised all the human has left: call or fold only.
\* The analysis carries no outs field and a negative EV, the advice no
\* teaching points and an action outside the table of updateAdvice.
DocTurn ==
    [hand_number |-> 1, stage |-> "TURN", pot |-> Some(1100),
     community_cards |-> Flop \o <<Card("3", "C")>>,
     players |-> <<Player("You", 50, Some(HoleH), 0, TRUE, FALSE, TRUE, TRUE, "check"),
                   Player("AI1", 400, None, 80, FALSE, TRUE, TRUE, TRUE, "raise"),
                   Player("AI2", 980, None, 0, FALSE, FALSE, FALSE, FALSE, "fold")>>,
     current_hand |-> "High Card",
     available_actions |-> <<Act("fold", 0), Act("call", 50), Act("all_in", 50)>>,
     analysis |-> Some([win_rate |-> 180, pot_odds |-> 43, ev |-> -7, outs |-> None]),
     advice |-> Some([action |-> "bluff", reasoning |-> "", teaching_points |-> None]),
     messages |-> <<"AI1 raises">>,
     hand_result |-> None, is_game_over |-> FALSE]

Reveal ==
    <<[name |-> "You", cards |-> Some(HoleH), hand |-> "High Card"],
      [name |-> "AI1", cards |-> Some(Hole1), hand |-> "One Pair"],
      [name |-> "AI2", cards |-> Some(Hole2), hand |-> "folded"]>>

\* Showdown lost: the active opponent's cards are revealed, the folded one's
\* are supplied too; the pot has been paid out and is reported as null; the
\* analysis is present with an empty outs list.
DocShowdown ==
    [hand_number |-> 1, stage |-> "SHOWDOWN", pot |-> None,
     community_cards |-> Flop \o <<Card("3", "C"), Card("8", "S")>>,
     players |-> <<Player("You", 900, Some(HoleH), 0, TRUE, FALSE, FALSE, TRUE, "call"),
                   Player("AI1", 1120, Some(Hole1), 0, FALSE, TRUE, FALSE, TRUE, "bet"),
                   Player("AI2", 980, Some(Hole2), 0, FALSE, FALSE, FALSE, FALSE, "fold")>>,
     current_hand |-> "High Card",
     available_actions |-> <<>>,
     analysis |-> Some([win_rate |-> 0, pot_odds |-> 0, ev |-> 0, outs |-> Some(<<>>)]),
     advice |-> None,
     messages |-> <<"showdown">>,
     hand_result |-> Some([winners |-> <<"AI1">>, pot |-> 200, hands |-> Some(Reveal)]),
     is_game_over |-> FALSE]

\* The human is out of chips: the last hand's result and the end of the game.
DocBusted ==
    [hand_number |-> 2, stage |-> "FINISHED", pot |-> Some(0),
     community_cards |-> Flop \o <<Card("3", "C"), Card("8", "S")>>,
     players |-> <<Player("You", 0, Some(HoleH), 0, TRUE, FALSE, FALSE, FALSE, "all_in"),
                   Player("AI1", 3000, Some(Hole1), 0, FALSE, TRUE, FALSE, TRUE, "call")>>,
     current_hand |-> "High Card",
     available_actions |-> <<>>,
     analysis |-> None, advice |-> None,
     messages |-> <<"showdown", "game over">>,
     hand_result |-> Some([winners |-> <<"AI1">>, pot |-> 1200, hands |-> None]),
     is_game_over |-> TRUE]

\* Every opponent is eliminated; the state carries no hand result.
DocChampion ==
    [hand_number |-> 2, stage |-> "WAITING", pot |-> Some(0),
     community_cards |-> <<>>,
     players |-> <<Player("You", 3000, Some(<<>>), 0, TRUE, TRUE, FALSE, TRUE, "")>>,
     current_hand |-> "",
     available_actions |-> <<>>,
     analysis |-> None, advice |-> None,
     messages |-> <<>>,
     hand_result |-> None, is_game_over |-> TRUE]

Docs == <<DocDealt, DocDealt2, DocFlop, DocTurn, DocShowdown, DocBusted, DocChampion>>
DocIds == 1..Len(Docs)
\* The documents a start-hand request can produce.
StartDocs == {1, 2}
\* The documents an action applied in document d can lead to: the next
\* street, the end of the hand, or the end of the game.
NextDocs(d) ==
    IF d = 1 THEN {3, 5, 6}
    ELSE IF d = 2 THEN {4, 5, 7}
    ELSE IF d = 3 THEN {4, 5}
    ELSE IF d = 4 THEN {5, 6}
    ELSE {}

\* Error texts, as sequences of words.
NoActiveGame == <<"No", "active", "game">>
\* What the server says for a missing session ...
SessionErrors == {<<"No", "active", "game">>, <<"Error:", "No", "active", "game", "found">>}
\* ... and for an action it cannot apply.
ActionErrors == {<<"Invalid", "action">>, <<"No", "active", "player">>}


\* ----------------------------------------------------------- rendering
AllActions == <<"fold", "check", "bet", "call", "raise", "all_in">>
ActionSet == {AllActions[i] : i \in DOMAIN AllActions}

\* Array.prototype.find: the first element whose index is in hits (the
\* indices satisfying the callback), or undefined.
FirstOf(seq, hits) ==
    IF hits = {} THEN None
    ELSE Some(seq[CHOOSE i \in hits : \A j \in hits : i <= j])

\* String.prototype.includes, on texts that are sequences of words.
\* (includesExact is the slip of comparing with === instead.)
includesExact(s, t) == s = t
includes(s, t) ==
    \E i \in 1..(Len(s) - Len(t) + 1) : SubSeq(s, i, i + Len(t) - 1) = t

translateStage(stage) ==
    IF stage \in {"WAITING", "PRE_FLOP", "FLOP", "TURN", "RIVER", "SHOWDOWN", "FINISHED"}
    THEN T("zh", 0) @@ [s |-> stage]
    ELSE T("", 0) @@ [s |-> stage]

isRed(card) == card.suit \in {"H", "D"}
Face(card, small) ==
    [kind |-> "face", small |-> small, red |-> isRed(card),
     rank |-> card.rank, suit |-> card.suit]
Hidden == [kind |-> "hidden", small |-> TRUE, red |-> FALSE, rank |-> "", suit |-> ""]
Placeholder == [kind |-> "placeholder", small |-> FALSE, red |-> FALSE, rank |-> "", suit |-> ""]

renderCommunityCards(cards) ==
    [i \in 1..5 |-> IF i <= Len(cards) THEN Face(cards[i], FALSE) ELSE Placeholder]

\* cards: None or Some(list); folded: the second argument, default false.
\* (renderSmallCardsFaceUp is the slip of ignoring folded.)
renderSmallCardsFaceUp(cards, folded) ==
    IF ~Truthy(cards) THEN <<Hidden, Hidden>>
    ELSE [i \in 1..Len(cards[1]) |-> Face(cards[1][i], TRUE)]
renderSmallCards(cards, folded) ==
    IF ~Truthy(cards) \/ folded THEN <<Hidden, Hidden>>
    ELSE [i \in 1..Len(cards[1]) |-> Face(cards[1][i], TRUE)]

renderPlayerCards(cards) ==
    IF ~Truthy(cards) \/ Len(cards[1]) = 0 THEN <<>>
    ELSE [i \in 1..Len(cards[1]) |-> Face(cards[1][i], FALSE)]

posClass(n, i) ==
    IF n = 3 THEN (IF i = 1 THEN "pos-left" ELSE IF i = 2 THEN "pos-right" ELSE "pos-top")
    ELSE IF n = 4 THEN (IF i = 1 THEN "pos-left" ELSE IF i = 3 THEN "pos-right" ELSE "pos-top")
    ELSE IF n = 5 THEN (IF i = 1 THEN "pos-left" ELSE IF i = 2 THEN "pos-top-left"
                        ELSE IF i = 3 THEN "pos-top-right"
                        ELSE IF i = 4 THEN "pos-right" ELSE "pos-top")
    ELSE "pos-top"

\* The text of the action indicator of one opponent.
actionText(opp) ==
    IF opp.last_action # "" /\ opp.last_action # "fold"
    THEN IF opp.last_action \in {"bet", "call", "raise", "all_in"} /\ opp.current_bet > 0
         THEN T(opp.last_action, opp.current_bet)
         ELSE T(opp.last_action, 0)
    ELSE IF opp.bet > 0 /\ opp.is_current THEN T("bet", opp.bet)
    ELSE NoText

renderOpponents(opponents) ==
    [layout |-> Len(opponents),
     list |-> [i \in 1..Len(opponents) |->
        LET opp == opponents[i] IN
        [classes |-> <<"opponent", posClass(Len(opponents), i)>>
                     \o (IF opp.is_current THEN <<"current">> ELSE <<>>)
                     \o (IF opp.is_current /\ opp.bet > 0 THEN <<"acting">> ELSE <<>>)
                     \o (IF ~opp.is_active THEN <<"folded">> ELSE <<>>),
         action |-> actionText(opp),
         name |-> opp.name,
         dealer |-> opp.is_dealer,
         chips |-> T("$", opp.chips),
         bet |-> IF opp.bet > 0 THEN Some(T("bet: $", opp.bet)) ELSE None,
         cards |-> renderSmallCards(opp.cards, ~opp.is_active),
         folded |-> ~opp.is_active,
         allIn |-> opp.is_all_in]]]

\* actions.find(a => a.action === action)
findAction(actions, action) ==
    FirstOf(actions, {i \in DOMAIN actions : actions[i].action = action})

\* updateActions: the six buttons, the call and bet labels, the slider.
\* Setting slider.min and slider.value to the same amount leaves the range
\* input at that amount.
\* (updateActionsKeepMin is the slip of not setting slider.min,
\* updateActionsEnableOnly that of never disabling a button.)
updateActionsKeepMin(u, actions) ==
    LET avail(a) == findAction(actions, a)
        u1 == [u EXCEPT
                 !.disabled = [a \in ActionSet |-> ~Truthy(avail(a))],
                 !.callText = IF Truthy(avail("call")) THEN T("call $", avail("call")[1].amount) ELSE @,
                 !.betText = IF Truthy(avail("bet")) THEN T("bet $", avail("bet")[1].amount) ELSE @]
        sliderAction == IF Truthy(avail("raise")) THEN avail("raise") ELSE avail("bet")
    IN IF Truthy(sliderAction)
       THEN [u1 EXCEPT !.sliderValue = sliderAction[1].amount,
                       !.raiseAmount = sliderAction[1].amount]
       ELSE u1
updateActionsEnableOnly(u, actions) ==
    LET avail(a) == findAction(actions, a)
        u1 == [u EXCEPT
                 !.disabled = [a \in ActionSet |-> IF Truthy(avail(a)) THEN FALSE ELSE @[a]],
                 !.callText = IF Truthy(avail("call")) THEN T("call $", avail("call")[1].amount) ELSE @,
                 !.betText = IF Truthy(avail("bet")) THEN T("bet $", avail("bet")[1].amount) ELSE @]
        sliderAction == IF Truthy(avail("raise")) THEN avail("raise") ELSE avail("bet")
    IN IF Truthy(sliderAction)
       THEN [u1 EXCEPT !.sliderMin = sliderAction[1].amount,
                       !.sliderValue = sliderAction[1].amount,
                       !.raiseAmount = sliderAction[1].amount]
       ELSE u1
updateActions(u, actions) ==
    LET avail(a) == findAction(actions, a)
        u1 == [u EXCEPT
                 !.disabled = [a \in ActionSet |-> ~Truthy(avail(a))],
                 !.callText = IF Truthy(avail("call")) THEN T("call $", avail("call")[1].amount) ELSE @,
                 !.betText = IF Truthy(avail("bet")) THEN T("bet $", avail("bet")[1].amount) ELSE @]
        sliderAction == IF Truthy(avail("raise")) THEN avail("raise") ELSE avail("bet")
    IN IF Truthy(sliderAction)
       THEN [u1 EXCEPT !.sliderMin = sliderAction[1].amount,
                       !.sliderValue = sliderAction[1].amount,
                       !.raiseAmount = sliderAction[1].amount]
       ELSE u1

\* win_rate and pot_odds are carried in thousandths, so (x * 100).toFixed(1)
\* is the number of tenths of a percent; ev is carried in whole chips.
Abs(n) == IF n >= 0 THEN n ELSE -n
renderOuts(outs) ==
    [i \in 1..Len(outs) |->
        [name |-> outs[i].name, count |-> outs[i].count, prob |-> outs[i].probability]]

\* (updateAnalysisKeepOuts is the slip of leaving outs-section alone when the
\* analysis has no outs.)
updateAnalysisKeepOuts(u, analysis) ==
    IF ~Truthy(analysis)
    THEN [u EXCEPT !.winRate = T("--", 0), !.potOdds = T("--", 0), !.ev = T("--", 0),
                   !.outs = <<>>]
    ELSE LET a == analysis[1] IN
         [u EXCEPT !.winRate = T("%", a.win_rate),
                   !.potOdds = T("%", a.pot_odds),
                   !.ev = IF a.ev >= 0 THEN T("+$", a.ev) ELSE T("-$", Abs(a.ev)),
                   !.evClass = IF a.ev >= 0 THEN "positive" ELSE "negative",
                   !.outs = IF Truthy(a.outs) /\ Len(a.outs[1]) > 0
                            THEN renderOuts(a.outs[1]) ELSE @]
updateAnalysis(u, analysis) ==
    IF ~Truthy(analysis)
    THEN [u EXCEPT !.winRate = T("--", 0), !.potOdds = T("--", 0), !.ev = T("--", 0),
                   !.outs = <<>>]
    ELSE LET a == analysis[1] IN
         [u EXCEPT !.winRate = T("%", a.win_rate),
                   !.potOdds = T("%", a.pot_odds),
                   !.ev = IF a.ev >= 0 THEN T("+$", a.ev) ELSE T("-$", Abs(a.ev)),
                   !.evClass = IF a.ev >= 0 THEN "positive" ELSE "negative",
                   !.outs = IF Truthy(a.outs) /\ Len(a.outs[1]) > 0
                            THEN renderOuts(a.outs[1]) ELSE <<>>]

AdviceLabels == {"strong_bet", "bet", "call", "check_call", "check_fold", "fold"}
adviceText(action) ==
    IF action \in AdviceLabels THEN "advise:" \o action ELSE action

updateAdvice(u, advice) ==
    IF ~Truthy(advice)
    THEN [u EXCEPT !.adviceAction = "waiting", !.adviceClass = "",
                   !.adviceReason = "", !.teachingPoints = <<>>]
    ELSE LET a == advice[1] IN
         [u EXCEPT !.adviceAction = adviceText(a.action),
                   !.adviceClass = a.action,
                   !.adviceReason = a.reasoning,
                   !.teachingPoints = IF Truthy(a.teaching_points)
                                      THEN a.teaching_points[1] ELSE <<>>]

renderMessages(messages) == messages

showModal(u, id) == [u EXCEPT !.modal[id] = TRUE]
hideModal(u, id) == [u EXCEPT !.modal[id] = FALSE]

Contains(seq, x) == \E i \in DOMAIN seq : seq[i] = x

showHandResult(u, result) ==
    LET hands == IF Truthy(result.hands) THEN result.hands[1] ELSE <<>>
        u1 == [u EXCEPT
                 !.resultTitle = IF Contains(result.winners, "You") THEN "you won" ELSE "hand over",
                 !.winnerInfo = [winners |-> result.winners, pot |-> result.pot],
                 !.handsReveal = [i \in 1..Len(hands) |->
                                    [name |-> hands[i].name,
                                     cards |-> renderSmallCards(hands[i].cards, FALSE),
                                     hand |-> hands[i].hand]]]
    IN showModal(u1, "result-modal")

showGameOver(u, chips) ==
    showModal([u EXCEPT !.gameoverMessage = IF chips <= 0 THEN "out of chips" ELSE "champion"],
              "gameover-modal")

showRaiseModal(u) == showModal(u, "raise-modal")

isHuman(p) == p.is_human
notHuman(p) == ~p.is_human

\* updateUI from line 156 on: the rendering of a state document s.
renderState(u, s) ==
    LET potValue == IF Truthy(s.pot) THEN s.pot[1] ELSE 0
        human == FirstOf(s.players, {i \in DOMAIN s.players : isHuman(s.players[i])})
        u1 == [u EXCEPT !.handNum = s.hand_number,
                        !.stage = translateStage(s.stage),
                        !.pot = T("$", potValue),
                        !.community = renderCommunityCards(s.community_cards),
                        !.opponents = renderOpponents(SelectSeq(s.players, notHuman))]
        u2 == IF Truthy(human)
              THEN [u1 EXCEPT !.playerCards = renderPlayerCards(human[1].cards),
                              !.playerChips = T("$", human[1].chips)]
              ELSE u1
        u3 == [u2 EXCEPT !.currentHand = s.current_hand]
        u4 == updateActions(u3, s.available_actions)
        u5 == updateAnalysis(u4, s.analysis)
        u6 == updateAdvice(u5, s.advice)
        u7 == [u6 EXCEPT !.messages = renderMessages(s.messages)]
        u8 == IF Truthy(s.hand_result) THEN showHandResult(u7, s.hand_result[1]) ELSE u7
    IN IF s.is_game_over THEN showGameOver(u8, human[1].chips) ELSE u8

\* A response body: a state document (by its index in Docs), an error, the
\* answer to /api/game/new, or JSON null.
StateResp(d) == [type |-> "state", doc |-> d, error |-> <<>>, success |-> FALSE]
ErrorResp(e) == [type |-> "error", doc |-> 0, error |-> e, success |-> FALSE]
NewResp(ok) == [type |-> "new", doc |-> 0, error |-> <<>>, success |-> ok]
NoResp == [type |-> "null", doc |-> 0, error |-> <<>>, success |-> FALSE]

\* updateUI: the page after the call, and whether location.reload() ran.
\* (updateUIErrorShown is the slip of writing the error into the messages.)
updateUIErrorShown(u, state) ==
    IF state.type = "null" THEN [ui |-> u, reload |-> FALSE]
    ELSE IF state.type = "error"
    THEN [ui |-> [u EXCEPT !.messages = <<"error">>],
          reload |-> includes(state.error, NoActiveGame)]
    ELSE [ui |-> renderState(u, Docs[state.doc]), reload |-> FALSE]
updateUI(u, state) ==
    IF state.type = "null" THEN [ui |-> u, reload |-> FALSE]
    ELSE IF state.type = "error"
    THEN [ui |-> u, reload |-> includes(state.error, NoActiveGame)]
    ELSE [ui |-> renderState(u, Docs[state.doc]), reload |-> FALSE]


\* ------------------------------------------------------------------ state
Modals == {"raise-modal", "result-modal", "gameover-modal"}

VARIABLES
    ui,        \* the page: PokerGame's fields and the DOM
    net,       \* the requests in flight, a bag
    srvGame,   \* the server holds a game for this session
    srvDoc,    \* the server's current state document (0: no hand started)
    shown,     \* the document updateUI displayed last (0: none yet)
    sent,      \* how many requests the client has sent
    over,      \* a state with is_game_over was displayed since the last new game
    ev         \* what the last step did

vars == <<ui, net, srvGame, srvDoc, shown, sent, over, ev>>

\* The page as loaded.  The page template is not among the sources: its
\* elements start empty and its action buttons disabled, so that every click
\* on an action button is one a displayed state has enabled.
InitUI ==
    [gameId |-> 0, currentBetAction |-> "",
     startScreen |-> TRUE, gameScreen |-> FALSE,
     modal |-> [m \in Modals |-> FALSE],
     handNum |-> 0, stage |-> translateStage(""), pot |-> NoText,
     community |-> <<>>, opponents |-> [layout |-> 0, list |-> <<>>],
     playerCards |-> <<>>, playerChips |-> NoText, currentHand |-> "",
     disabled |-> [a \in ActionSet |-> TRUE],
     callText |-> NoText, betText |-> NoText,
     sliderMin |-> 0, sliderValue |-> 0, raiseAmount |-> 0,
     winRate |-> NoText, potOdds |-> NoText, ev |-> NoText, evClass |-> "",
     outs |-> <<>>,
     adviceAction |-> "", adviceClass |-> "", adviceReason |-> "",
     teachingPoints |-> <<>>, messages |-> <<>>,
     resultTitle |-> "", winnerInfo |-> [winners |-> <<>>, pot |-> 0],
     handsReveal |-> <<>>, gameoverMessage |-> ""]

Req(kind, action, amount) ==
    [kind |-> kind, action |-> action, amount |-> amount, status |-> "sent", resp |-> NoResp]

Event(type, kind, action, amount, error, reloaded) ==
    [type |-> type, kind |-> kind, action |-> action, amount |-> amount,
     error |-> error, reloaded |-> reloaded]
Sent(kind, action, amount) == Event("send", kind, action, amount, <<>>, FALSE)
Other == Event("other", "", "", 0, <<>>, FALSE)

InFlight == BagToSet(net)
Add(n, r) == n (+) SetToBag({r})
Remove(n, r) == n (-) SetToBag({r})

Init ==
    /\ ui = InitUI
    /\ net = EmptyBag
    /\ srvGame = FALSE
    /\ srvDoc = 0
    /\ shown = 0
    /\ sent = 0
    /\ over = FALSE
    /\ ev = Other

\* ------------------------------------------------------- client handlers
\* btn-start: startGame() up to its fetch.
ClickStart ==
    /\ ui.startScreen
    /\ sent < MaxRequests
    /\ sent' = sent + 1
    /\ net' = Add(net, Req("new", "", 0))
    /\ over' = FALSE
    /\ ev' = Sent("new", "", 0)
    /\ UNCHANGED <<ui, srvGame, srvDoc, shown>>

\* A click on an enabled .btn-action: raise and bet open the modal, the
\* others call doAction(action), which sends amount 0.
ClickAction(action) ==
    /\ ui.gameScreen
    /\ ~ui.disabled[action]
    /\ IF action = "raise" \/ action = "bet"
       THEN /\ ui' = showRaiseModal([ui EXCEPT !.currentBetAction = action])
            /\ ev' = Other
            /\ net' = net
            /\ sent' = sent
       ELSE /\ sent < MaxRequests
            /\ sent' = sent + 1
            /\ net' = Add(net, Req("action", action, 0))
            /\ ev' = Sent("action", action, 0)
            /\ ui' = ui
    /\ UNCHANGED <<srvGame, srvDoc, shown, over>>

\* raise-slider input: the range input lets the user pick a value from its
\* minimum up.
SliderInput(v) ==
    /\ ui.modal["raise-modal"]
    /\ v >= ui.sliderMin
    /\ v # ui.sliderValue
    /\ ui' = [ui EXCEPT !.sliderValue = v, !.raiseAmount = v]
    /\ ev' = Other
    /\ UNCHANGED <<net, srvGame, srvDoc, shown, over, sent>>

RaiseCancel ==
    /\ ui.modal["raise-modal"]
    /\ ui' = hideModal(ui, "raise-modal")
    /\ ev' = Other
    /\ UNCHANGED <<net, srvGame, srvDoc, shown, over, sent>>

\* raise-confirm: doAction(this.currentBetAction || 'raise', amount).
RaiseConfirm ==
    /\ ui.modal["raise-modal"]
    /\ sent < MaxRequests
    /\ sent' = sent + 1
    /\ LET amount == ui.sliderValue
           action == IF ui.currentBetAction # "" THEN ui.currentBetAction ELSE "raise"
       IN /\ net' = Add(net, Req("action", action, amount))
          /\ ev' = Sent("action", action, amount)
    /\ ui' = hideModal(ui, "raise-modal")
    /\ UNCHANGED <<srvGame, srvDoc, shown, over>>

\* next-hand: hide the result modal, startHand().
NextHand ==
    /\ ui.modal["result-modal"]
    /\ sent < MaxRequests
    /\ sent' = sent + 1
    /\ ui' = hideModal(ui, "result-modal")
    /\ net' = Add(net, Req("start", "", 0))
    /\ ev' = Sent("start", "", 0)
    /\ UNCHANGED <<srvGame, srvDoc, shown, over>>

\* restart-game: back to the start screen.
RestartGame ==
    /\ ui.modal["gameover-modal"]
    /\ ui' = [hideModal(ui, "gameover-modal") EXCEPT !.gameScreen = FALSE, !.startScreen = TRUE]
    /\ ev' = Other
    /\ UNCHANGED <<net, srvGame, srvDoc, shown, over, sent>>

\* fetch rejects (the request never reaches the server): the catch branch
\* of startGame, startHand and doAction only logs.
FetchFail(r) ==
    /\ r.status = "sent"
    /\ net' = Remove(net, r)
    /\ ev' = Other
    /\ UNCHANGED <<ui, srvGame, srvDoc, shown, over, sent>>

\* The answer to /api/game/new arrives: the rest of startGame, which on
\* success switches screens and calls startHand().
DeliverNew(r) ==
    /\ r.status = "done"
    /\ r.kind = "new"
    /\ IF r.resp.success
       THEN /\ sent < MaxRequests
            /\ sent' = sent + 1
            /\ ui' = [ui EXCEPT !.gameId = 1, !.startScreen = FALSE, !.gameScreen = TRUE]
            /\ net' = Add(Remove(net, r), Req("start", "", 0))
            /\ ev' = Sent("start", "", 0)
       ELSE /\ ui' = ui
            /\ net' = Remove(net, r)
            /\ sent' = sent
            /\ ev' = Other
    /\ UNCHANGED <<srvGame, srvDoc, shown, over>>

\* The answer to /api/game/start or /api/game/action arrives: updateUI(state).
\* location.reload() loads the page anew: a fresh PokerGame, the DOM of the
\* template, and the old page's requests abandoned.
Deliver(r) ==
    /\ r.status = "done"
    /\ r.kind # "new"
    /\ LET state == r.resp
           out == updateUI(ui, state)
       IN IF out.reload
          THEN /\ ui' = InitUI
               /\ net' = EmptyBag
               /\ shown' = 0
               /\ over' = FALSE
               /\ ev' = Event("response", r.kind, "", 0, state.error, TRUE)
          ELSE /\ ui' = out.ui
               /\ net' = Remove(net, r)
               /\ shown' = IF state.type = "state" THEN state.doc ELSE shown
               /\ over' = (over \/ (state.type = "state" /\ Docs[state.doc].is_game_over))
               /\ ev' = Event("response", r.kind, "", 0, state.error, FALSE)
    /\ UNCHANGED <<srvGame, srvDoc, sent>>

\* ------------------------------------------------------------ the server
Answer(r, resp) == net' = Add(Remove(net, r), [r EXCEPT !.status = "done", !.resp = resp])

\* POST /api/game/new: a new game for the session.
ServerNew(r) ==
    /\ r.status = "sent"
    /\ r.kind = "new"
    /\ \E ok \in BOOLEAN :
          /\ Answer(r, NewResp(ok))
          /\ srvGame' = (srvGame \/ ok)
          /\ srvDoc' = IF ok THEN 0 ELSE srvDoc
    /\ ev' = Other
    /\ UNCHANGED <<ui, shown, over, sent>>

\* POST /api/game/start: deal the next hand.
ServerStart(r) ==
    /\ r.status = "sent"
    /\ r.kind = "start"
    /\ IF ~srvGame
       THEN /\ \E e \in SessionErrors : Answer(r, ErrorResp(e))
            /\ UNCHANGED srvDoc
       ELSE IF srvDoc # 0 /\ Docs[srvDoc].is_game_over
       THEN /\ \E e \in ActionErrors : Answer(r, ErrorResp(e))
            /\ UNCHANGED srvDoc
       ELSE /\ \E d \in StartDocs :
                  /\ Answer(r, StateResp(d))
                  /\ srvDoc' = d
    /\ ev' = Other
    /\ UNCHANGED <<ui, srvGame, shown, over, sent>>

\* The action is one the server's current state offers the human player,
\* with at least the advertised amount for a bet or raise.
Legal(action, amount) ==
    /\ srvDoc # 0
    /\ LET a == findAction(Docs[srvDoc].available_actions, action)
       IN /\ Truthy(a)
          /\ action \in {"bet", "raise"} => amount >= a[1].amount

\* POST /api/game/action: apply the human's action and the opponents' replies.
ServerAction(r) ==
    /\ r.status = "sent"
    /\ r.kind = "action"
    /\ IF ~srvGame
       THEN /\ \E e \in SessionErrors : Answer(r, ErrorResp(e))
            /\ UNCHANGED srvDoc
       ELSE IF ~Legal(r.action, r.amount)
       THEN /\ \E e \in ActionErrors : Answer(r, ErrorResp(e))
            /\ UNCHANGED srvDoc
       ELSE /\ \E d \in NextDocs(srvDoc) :
                  /\ Answer(r, StateResp(d))
                  /\ srvDoc' = d
    /\ ev' = Other
    /\ UNCHANGED <<ui, srvGame, shown, over, sent>>

\* The server loses the session (it expires, or the process restarts).
SessionExpire ==
    /\ srvGame
    /\ srvGame' = FALSE
    /\ srvDoc' = 0
    /\ ev' = Other
    /\ UNCHANGED <<ui, net, shown, over, sent>>

Next ==
    \/ ClickStart
    \/ \E a \in ActionSet : ClickAction(a)
    \/ \E k \in 0..MaxSlide : SliderInput(ui.sliderMin + k)
    \/ RaiseCancel
    \/ RaiseConfirm
    \/ NextHand
    \/ RestartGame
    \/ \E r \in InFlight : FetchFail(r)
    \/ \E r \in InFlight : DeliverNew(r)
    \/ \E r \in InFlight : Deliver(r)
    \/ \E r \in InFlight : ServerNew(r)
    \/ \E r \in InFlight : ServerStart(r)
    \/ \E r \in InFlight : ServerAction(r)
    \/ SessionExpire

Spec == Init /\ [][Next]_vars


\* ----------------------------------------------------------------- claims
\* The available_actions of the state on display.
Offered == Docs[shown].available_actions
Offers(action) == \E i \in DOMAIN Offered : Offered[i].action = action

ActionRequests == {r \in InFlight : r.kind = "action"}

\* The text e contains the phrase 'No active game'.
HasNoActiveGame(e) ==
    \E i \in 0..Len(e) : \E j \in 1..(Len(e) + 1) :
        e = SubSeq(e, 1, i) \o <<"No", "active", "game">> \o SubSeq(e, j, Len(e))

ErrorArrived == ev.type = "response" /\ ev.error # <<>>
ActionSent == ev.type = "send" /\ ev.kind = "action"

\* C1: at most one action request of the session is in flight at any time.
C1_OneActionInFlight ==
    /\ Cardinality(ActionRequests) <= 1
    /\ \A r \in ActionRequests : CopiesIn(r, net) = 1

\* C2 as stated: a response with an error field leaves every part of the
\* page unchanged.
C2_ErrorLeavesPage == [][ErrorArrived' => ui' = ui]_vars

\* C2 amended: an error that does not contain 'No active game' leaves every
\* part of the page unchanged and opens no modal; one that contains it
\* reloads the page, which replaces the page by the freshly loaded one.
C2_ErrorLeavesPageUnlessReload ==
    [][ErrorArrived' =>
          IF HasNoActiveGame(ev'.error) THEN ui' = InitUI ELSE ui' = ui]_vars

\* An illegal-action error has arrived while a game state is displayed.
C2_Witness == ErrorArrived /\ ~HasNoActiveGame(ev.error) /\ shown # 0 /\ ui.gameScreen

\* C3: on an error response the page is reloaded if and only if the error
\* text contains 'No active game'; after any other error the page object
\* and the displayed game are still there.
C3_ReloadIffNoActiveGame ==
    ErrorArrived =>
        /\ ev.reloaded <=> HasNoActiveGame(ev.error)
        /\ ev.reloaded => (ui = InitUI /\ net = EmptyBag /\ shown = 0)
        /\ ~ev.reloaded => (ui.gameId # 0 /\ ui # InitUI)

\* The longer missing-session text has arrived and reloaded the page.
C3_Witness == ErrorArrived /\ ev.reloaded /\ Len(ev.error) > 3

\* C4: after a state is displayed, each of the six action buttons is enabled
\* if and only if available_actions of that state has an entry for it.
C4_ButtonsMatchOffered ==
    shown # 0 => \A a \in ActionSet : (~ui.disabled[a]) <=> Offers(a)

\* The flop is displayed after the deal: call and raise, enabled before, are
\* disabled now.
C4_Witness == shown = 3 /\ ui.disabled["call"] /\ ui.disabled["raise"] /\ ~ui.disabled["check"]

\* C5: a request sent names one of the six actions; fold, check, call and
\* all_in carry amount 0; a bet or raise carries an amount not below the
\* minimum the displayed state advertises for that action.
C5_SentActionWellFormed ==
    ActionSent =>
        /\ ev.action \in {"fold", "check", "call", "bet", "raise", "all_in"}
        /\ ev.action \in {"fold", "check", "call", "all_in"} => ev.amount = 0
        /\ ev.action \in {"bet", "raise"} => ev.amount = ui.sliderValue
        /\ (ev.action \in {"bet", "raise"} /\ shown # 0) =>
              \A i \in DOMAIN Offered :
                  Offered[i].action = ev.action => ev.amount >= Offered[i].amount

\* A bet or raise the displayed state offers was confirmed with the slider
\* moved above the advertised minimum.
C5_Witness ==
    /\ ActionSent
    /\ shown # 0
    /\ \E i \in DOMAIN Offered :
          Offered[i].action = ev.action /\ ev.action \in {"bet", "raise"}
          /\ ev.amount > Offered[i].amount

FaceUp(shownCards, cards) ==
    /\ Len(shownCards) = Len(cards)
    /\ \A k \in DOMAIN cards :
          /\ shownCards[k].kind = "face"
          /\ shownCards[k].rank = cards[k].rank
          /\ shownCards[k].suit = cards[k].suit
TwoFaceDown(shownCards) ==
    Len(shownCards) = 2 /\ \A k \in 1..2 : shownCards[k].kind = "hidden"

\* C6: an opponent's cards are face-up in the opponents area only when the
\* state supplies them and the opponent has not folded, otherwise two cards
\* are face-down; cards supplied in hand_result are face-up in the result
\* modal whatever the fold status.
C6_OpponentCards ==
    shown # 0 =>
        LET opps == SelectSeq(Docs[shown].players, notHuman)
            result == Docs[shown].hand_result
        IN /\ Len(ui.opponents.list) = Len(opps)
           /\ \A i \in DOMAIN opps :
                 IF opps[i].cards # <<>> /\ opps[i].is_active
                 THEN FaceUp(ui.opponents.list[i].cards, opps[i].cards[1])
                 ELSE TwoFaceDown(ui.opponents.list[i].cards)
           /\ (result # <<>> /\ result[1].hands # <<>>) =>
                 \A i \in DOMAIN result[1].hands[1] :
                     result[1].hands[1][i].cards # <<>> =>
                         FaceUp(ui.handsReveal[i].cards, result[1].hands[1][i].cards[1])

\* The showdown is displayed: a folded opponent whose cards are supplied is
\* face-down at the table and face-up in the result modal.
C6_Witness ==
    /\ shown = 5
    /\ ui.modal["result-modal"]
    /\ \E i \in DOMAIN ui.opponents.list :
          ui.opponents.list[i].folded /\ Docs[5].players[i + 1].cards # <<>>

\* C7: the analysis and advice panels show the displayed state's values, or
\* the placeholders and empty lists when it has none; nothing of an earlier
\* state stays.
C7_PanelsReflectShown ==
    shown # 0 =>
        LET an == Docs[shown].analysis
            ad == Docs[shown].advice
        IN /\ an = <<>> =>
                /\ ui.winRate.t = "--" /\ ui.potOdds.t = "--" /\ ui.ev.t = "--"
                /\ ui.outs = <<>>
           /\ an # <<>> =>
                /\ ui.winRate = [t |-> "%", n |-> an[1].win_rate]
                /\ ui.potOdds = [t |-> "%", n |-> an[1].pot_odds]
                /\ ui.ev.n = (IF an[1].ev < 0 THEN 0 - an[1].ev ELSE an[1].ev)
                /\ ui.ev.t = (IF an[1].ev < 0 THEN "-$" ELSE "+$")
                /\ Len(ui.outs) = (IF an[1].outs = <<>> THEN 0 ELSE Len(an[1].outs[1]))
                /\ \A k \in DOMAIN ui.outs :
                      /\ ui.outs[k].name = an[1].outs[1][k].name
                      /\ ui.outs[k].count = an[1].outs[1][k].count
                      /\ ui.outs[k].prob = an[1].outs[1][k].probability
           /\ ad = <<>> =>
                /\ ui.adviceAction = "waiting"
                /\ ui.adviceReason = ""
                /\ ui.teachingPoints = <<>>
           /\ ad # <<>> =>
                /\ ui.adviceAction \in {ad[1].action, "advise:" \o ad[1].action}
                /\ ui.adviceClass = ad[1].action
                /\ ui.adviceReason = ad[1].reasoning
                /\ ui.teachingPoints =
                      (IF ad[1].teaching_points = <<>> THEN <<>> ELSE ad[1].teaching_points[1])

\* A state whose analysis has no outs (a missing or an empty list) is
\* displayed on a page that displayed the flop, with its two outs, before
\* (the bet label is still the flop's).
C7_Witness ==
    /\ shown \in {4, 5}
    /\ ui.betText.t = "bet $"
    /\ ui.outs = <<>>

\* C8: every action request sent names an action that available_actions of
\* the state on display contains.
C8_SentActionOffered == ActionSent => (shown # 0 /\ Offers(ev.action))

\* C9: once a state with is_game_over has been displayed, no start-hand or
\* action request is sent before the next new-game request.
C9_NothingSentAfterGameOver ==
    (ev.type = "send" /\ ev.kind \in {"start", "action"}) => ~over

\* C10: whenever no request is in flight, the state on display is the one the
\* server produced last for the session's game.
C10_DisplayIsServerState ==
    (net = EmptyBag /\ srvGame /\ srvDoc # 0) => shown = srvDoc

====
